---- MODULE Spec2Model ----
(***************************************************************************)
(* Payoff Chart Builder (src/app.py): a Streamlit script that is re-run    *)
(* from top to bottom on every user interaction.  The only state that      *)
(* survives a run is st.session_state.legs (and the values of the sidebar  *)
(* widgets).  One action below is one user interaction together with the   *)
(* script run (and the immediate re-run after st.experimental_rerun) that  *)
(* it triggers.                                                            *)
(*                                                                         *)
(* Arithmetic.  The program computes in floating point; the model computes *)
(* the same expressions exactly.  An amount of money kept in a leg or in   *)
(* the sidebar is an integer number of ticks of 0.5 currency units (the    *)
(* step of the premium inputs).  The 300 prices of the sweep are multiples *)
(* of 1/299 of half the spot, so curve values are counted in "fine" units  *)
(* of 1/Fine tick, in which every sample is an integer.                    *)
(*                                                                         *)
(* Widgets.  Streamlit identifies a widget by its key together with the    *)
(* arguments of the call (index=, value=, the bounds), and the session     *)
(* holds a value per widget.  The user acts on a widget of the page, that  *)
(* is, one the last run called; the action sets that widget's value.  A    *)
(* call whose identity is that of a widget the session holds returns that  *)
(* widget's value; any other call makes a new widget and returns its       *)
(* value= / index= argument.  A run that reaches its end leaves the        *)
(* session with the widgets it called.  For a run that raises, and for a   *)
(* run cut short by st.experimental_rerun(), the program does not          *)
(* determine what becomes of the widgets the session held and the run did  *)
(* not call: depending on the Streamlit at hand (the program pins none)    *)
(* they are dropped with the run or are still there for the next one.      *)
(* Which it is, is fixed for a session and is chosen in Init (keeps).      *)
(* st.slider widens its bounds to include the value it is given, it does   *)
(* not raise.                                                              *)
(***************************************************************************)
EXTENDS Integers, Sequences, FiniteSets, TLC

VARIABLES
    legs,        \* st.session_state.legs: sequence of leg records
    spot_price,  \* sidebar "Current Spot / Cash Price", in ticks
    err,         \* where the last run raised: "none", "strike", "premium"
    shown,       \* number of leg expanders the last run rendered completely
    clear_btn,   \* the last run reached the "Clear Strategy" button (line 165)
    removed,     \* the leg (1-based) whose Remove button triggered the last run, else 0
    visited,     \* legs the edit loop visited in the triggered run (before any re-run)
    widgets,     \* the leg widgets the session holds: <<i, field, arg>> -> value
    page,        \* the widgets the last run called (those on the page)
    keeps,       \* the runs that leave uncalled widgets in the session: "raise", "rerun"
    q,           \* leg_pnl evaluation: the arguments
    r            \* leg_pnl evaluation: the results

vars == <<legs, spot_price, err, shown, clear_btn, removed, visited, widgets, page,
         keeps, q, r>>

----------------------------------------------------------------------------
(* Program constants *)

TicksPerUnit == 2
DefaultSpot == 100
SAMPLES == 300
ATOL == 5
LotMin == 1
LotMax == 1000
ShownBreakevens == 4

Call == "Call Option"
Put == "Put Option"
Future == "Future"
Instruments == {Call, Put, Future}

Long == "Buy (Long)"
Short == "Sell (Short)"
Positions == {Long, Short}

\* Python's None and a present number: <<>> and <<v>>
None == <<>>
Some(v) == <<v>>

Abs(x) == IF x < 0 THEN -x ELSE x
maximum(a, b) == IF a >= b THEN a ELSE b

\* fine units per tick: every sample of the sweep is an integer in it
Fine == 2 * (SAMPLES - 1)

----------------------------------------------------------------------------
(* Model bounds *)

MaxLegs == 2
MaxCurveLegs == 2

----------------------------------------------------------------------------
(* Payoff logic (lines 78-107).  Amounts may be in any one unit. *)

\* put_payoff with the slip of computing the intrinsic value like the call's
put_payoff_swapped(price, strike, premium, lot, position) ==
    LET intrinsic == maximum(price - strike, 0)
        payoff == intrinsic - premium
    IN (IF position = Short THEN -payoff ELSE payoff) * lot

\* future_payoff with the slip of leaving out the sign flip of a short position
future_payoff_unsigned(price, spot, lot, position) ==
    (price - spot) * lot

call_payoff(price, strike, premium, lot, position) ==
    LET intrinsic == maximum(price - strike, 0)
        payoff == intrinsic - premium
    IN (IF position = Short THEN -payoff ELSE payoff) * lot

put_payoff(price, strike, premium, lot, position) ==
    LET intrinsic == maximum(strike - price, 0)
        payoff == intrinsic - premium
    IN (IF position = Short THEN -payoff ELSE payoff) * lot

future_payoff(price, spot, lot, position) ==
    LET payoff == price - spot
    IN (IF position = Short THEN -payoff ELSE payoff) * lot

\* leg_pnl reads the global spot_price; here it is the third argument.
\* leg["Strike"] of a None strike is a TypeError in the arithmetic: the
\* operator is only applied to legs whose option fields are present.
leg_pnl(price, leg, spot) ==
    IF leg.Instrument = Call
    THEN call_payoff(price, leg.Strike[1], leg.Premium[1], leg.Lot, leg.Position)
    ELSE IF leg.Instrument = Put
    THEN put_payoff(price, leg.Strike[1], leg.Premium[1], leg.Lot, leg.Position)
    ELSE future_payoff(price, spot, leg.Lot, leg.Position)

\* a leg kept in ticks, with its amounts in fine units
FineLeg(leg) ==
    [leg EXCEPT !.Strike = IF @ = None THEN None ELSE Some(@[1] * Fine),
                !.Premium = IF @ = None THEN None ELSE Some(@[1] * Fine)]

----------------------------------------------------------------------------
(* Sidebar "Add Position" (lines 43-69) *)

\* the leg built at line 62 from the sidebar inputs; the strike and premium
\* inputs exist only when the instrument is not a Future (lines 50-55)
NewLeg(instrument_type, position_type, strike, premium, lot_size) ==
    [Instrument |-> instrument_type,
     Position   |-> position_type,
     Strike     |-> IF instrument_type # Future THEN Some(strike) ELSE None,
     Premium    |-> IF instrument_type # Future THEN Some(premium) ELSE None,
     Lot        |-> lot_size]

----------------------------------------------------------------------------
(* Left panel: the edit loop (lines 111-167) *)

\* the user's change in the interaction that triggered the run
NoChange == [leg |-> 0, field |-> "none", value |-> 0]
Change(i, f, v) == [leg |-> i, field |-> f, value |-> v]

NoWidgets == <<>>

\* F applied to the value of x, x evaluated once
With(x, F(_)) == CHOOSE y \in {F(v) : v \in {x}} : TRUE

minimum(a, b) == IF a <= b THEN a ELSE b

\* the widgets of the session once the user has acted: the widget with key
\* f_i that is on the page takes the value the user gave it
Act(store, pg, chg) ==
    IF \E id \in pg : id[1] = chg.leg /\ id[2] = chg.field /\ chg.field # "del"
    THEN [id \in DOMAIN store |->
            IF id \in pg /\ id[1] = chg.leg /\ id[2] = chg.field
            THEN chg.value ELSE store[id]]
    ELSE store

\* a widget call of leg i with key f_i and arguments arg: the value of the
\* widget the session holds under that key and those arguments, else the
\* value= / index= argument
Widget(store, i, f, arg, default) ==
    IF <<i, f, arg>> \in DOMAIN store THEN store[<<i, f, arg>>] ELSE default

\* the widget registered by a call
Entry(i, f, arg, v) == [x \in {<<i, f, arg>>} |-> v]

\* one iteration of the loop body up to the Lot slider (lines 119-159);
\* float(None) at line 138 or 147 raises TypeError after the assignments
\* made before it.  The sliders of strike and premium take their bounds
\* from the spot price.
VisitLeg(leg, i, store, spot) ==
    LET inst == Widget(store, i, "inst", <<leg.Instrument>>, leg.Instrument)
        pos == Widget(store, i, "pos", <<leg.Position>>, leg.Position)
        l1 == [leg EXCEPT !.Instrument = inst, !.Position = pos]
        w1 == Entry(i, "inst", <<leg.Instrument>>, inst)
                @@ Entry(i, "pos", <<leg.Position>>, pos)
    IN IF inst # Future /\ leg.Strike = None
       THEN [leg |-> l1, err |-> "strike", called |-> w1]
       ELSE LET strike == IF inst # Future
                          THEN Widget(store, i, "strike",
                                      <<spot, leg.Strike[1]>>, leg.Strike[1])
                          ELSE 0
                l2 == IF inst # Future THEN [l1 EXCEPT !.Strike = Some(strike)] ELSE l1
                w2 == IF inst # Future
                      THEN w1 @@ Entry(i, "strike", <<spot, leg.Strike[1]>>, strike)
                      ELSE w1
            IN IF inst # Future /\ leg.Premium = None
               THEN [leg |-> l2, err |-> "premium", called |-> w2]
               ELSE LET prem == IF inst # Future
                                THEN Widget(store, i, "prem",
                                            <<spot, leg.Premium[1]>>, leg.Premium[1])
                                ELSE 0
                        l3 == IF inst # Future
                              THEN [l2 EXCEPT !.Premium = Some(prem)] ELSE l2
                        w3 == IF inst # Future
                              THEN w2 @@ Entry(i, "prem", <<spot, leg.Premium[1]>>, prem)
                              ELSE w2
                        lot == Widget(store, i, "lot", <<leg.Lot>>, leg.Lot)
                    IN [leg |-> [l3 EXCEPT !.Lot = lot],
                        err |-> "none",
                        called |-> w3 @@ Entry(i, "lot", <<leg.Lot>>, lot)
                                      @@ Entry(i, "del", <<>>, 0)]

\* st.session_state.legs.pop(i), i counted from 1 here
Pop(ls, i) == SubSeq(ls, 1, i - 1) \o SubSeq(ls, i + 1, Len(ls))

\* the for loop of line 117 from leg i on; called holds the widgets called
\* so far in the run.  A raise ends the run; a pressed Remove button pops
\* the leg and ends the run with a re-run (lines 161-163).
RECURSIVE EditLoop(_, _, _, _, _, _)
EditLoop(ls, i, chg, store, spot, called) ==
    IF i > Len(ls)
    THEN [legs |-> ls, shown |-> Len(ls), err |-> "none", rerun |-> FALSE,
          visited |-> Len(ls), clear_btn |-> TRUE, called |-> called]
    ELSE With(VisitLeg(ls[i], i, store, spot), LAMBDA v :
           IF v.err # "none"
           THEN [legs |-> [ls EXCEPT ![i] = v.leg], shown |-> i - 1, err |-> v.err,
                 rerun |-> FALSE, visited |-> i, clear_btn |-> FALSE,
                 called |-> called @@ v.called]
           ELSE IF chg.leg = i /\ chg.field = "del"
           THEN [legs |-> Pop([ls EXCEPT ![i] = v.leg], i), shown |-> i, err |-> "none",
                 rerun |-> TRUE, visited |-> i, clear_btn |-> FALSE,
                 called |-> called @@ v.called]
           ELSE EditLoop([ls EXCEPT ![i] = v.leg], i + 1, chg, store, spot,
                         called @@ v.called))

\* one pass over lines 111-167: the loop (skipped for an empty strategy,
\* line 114), then the Clear button
LeftPanel(ls, chg, store, spot) ==
    With(EditLoop(ls, 1, chg, store, spot, NoWidgets), LAMBDA p :
      IF p.rerun \/ p.err # "none" THEN p
      ELSE IF chg.field = "clear"
      THEN [p EXCEPT !.legs = <<>>, !.rerun = TRUE]
      ELSE p)

\* the widgets the session holds after a run: those the run called and, if
\* kept, those it held before and the run did not call
After(called, store, keep) == IF keep THEN called @@ store ELSE called

\* the end of a run: what it leaves in the session and on the page
Finish(p, store, kp) ==
    [legs |-> p.legs, shown |-> p.shown, err |-> p.err, visited |-> p.visited,
     clear_btn |-> p.clear_btn,
     widgets |-> After(p.called, store, p.err # "none" /\ "raise" \in kp),
     page |-> DOMAIN p.called]

\* the triggered run and, after st.experimental_rerun(), the run that
\* follows it, in which the user has changed nothing
Script(ls, chg, store, pg, spot, kp) ==
    With(Act(store, pg, chg), LAMBDA s1 :
      With(LeftPanel(ls, chg, s1, spot), LAMBDA p :
        IF p.rerun
        THEN With(After(p.called, s1, "rerun" \in kp), LAMBDA s2 :
               Finish([LeftPanel(p.legs, NoChange, s2, spot) EXCEPT !.visited = p.visited],
                      s2, kp))
        ELSE Finish(p, s1, kp)))

----------------------------------------------------------------------------
(* Right panel: curve and metrics (lines 170-218).  The panel writes no    *)
(* session state and is recomputed from legs and spot_price by every run   *)
(* that gets as far as line 170, so its values are functions of the state. *)

\* linspace with the slip of endpoint=False
linspace_open(start, stop, num) ==
    [k \in 1..num |-> start + (k - 1) * ((stop - start) \div num)]

\* np.linspace(start, stop, num): start + k*step with step = (stop-start)/(num-1),
\* the last sample set to stop
linspace(start, stop, num) ==
    LET step == (stop - start) \div (num - 1)
    IN [k \in 1..num |-> IF k = num THEN stop ELSE start + (k - 1) * step]

zeros_like(a) == [k \in DOMAIN a |-> 0]

\* lines 170-173: the panel computes a curve when the left panel did not
\* raise and the strategy is not empty
PanelShown == err = "none" /\ Len(legs) # 0

\* line 176, in fine units: spot*0.5 and spot*1.5 of a spot in ticks
price_range ==
    linspace((spot_price * Fine) \div 2, (3 * spot_price * Fine) \div 2, SAMPLES)

\* the accumulation with the slip of = in place of +=
accumulate_overwrite(total, prices, leg, spot) ==
    [k \in DOMAIN total |-> leg_pnl(prices[k], FineLeg(leg), spot * Fine)]

\* line 180: total_pnl += leg_pnl(price_range, leg), element-wise
accumulate(total, prices, leg, spot) ==
    [k \in DOMAIN total |-> total[k] + leg_pnl(prices[k], FineLeg(leg), spot * Fine)]

\* lines 177-180: the loop over the legs from leg i on
RECURSIVE curve_loop(_, _, _, _, _)
curve_loop(total, prices, ls, i, spot) ==
    IF i > Len(ls) THEN total
    ELSE curve_loop(accumulate(total, prices, ls[i], spot), prices, ls, i + 1, spot)

total_pnl_of(ls, spot, prices) == curve_loop(zeros_like(prices), prices, ls, 1, spot)

total_pnl == total_pnl_of(legs, spot_price, price_range)

\* np.max / np.min over a[lo..hi], by halves
RECURSIVE np_max(_, _, _)
np_max(a, lo, hi) ==
    IF lo = hi THEN a[lo]
    ELSE LET mid == (lo + hi) \div 2
             x == np_max(a, lo, mid)
             y == np_max(a, mid + 1, hi)
         IN IF x >= y THEN x ELSE y

RECURSIVE np_min(_, _, _)
np_min(a, lo, hi) ==
    IF lo = hi THEN a[lo]
    ELSE LET mid == (lo + hi) \div 2
             x == np_min(a, lo, mid)
             y == np_min(a, mid + 1, hi)
         IN IF x <= y THEN x ELSE y

\* n/d rounded to the nearest integer, ties to even (d > 0)
RoundDiv(n, d) ==
    LET fl == n \div d
        rem == n % d
    IN IF 2 * rem < d THEN fl
       ELSE IF 2 * rem > d THEN fl + 1
       ELSE IF fl % 2 = 0 THEN fl ELSE fl + 1

\* round(x, 2) of an amount in fine units: the result in hundredths of a
\* currency unit
round2(x) == RoundDiv(x * 100, Fine * TicksPerUnit)

\* lines 206-207
max_profit_of(pnl) == round2(np_max(pnl, 1, Len(pnl)))
max_loss_of(pnl) == round2(np_min(pnl, 1, Len(pnl)))

\* isclose with the slip of leaving atol out: only an exact zero is close
isclose_zero_tight(a, atol) == a = 0

\* np.isclose(a, 0, atol=atol): |a - 0| <= atol + rtol * |0|
isclose_zero(a, atol) == Abs(a) <= atol

\* line 209: price_range[np.isclose(total_pnl, 0, atol=5)], the selected
\* samples of prices[lo..hi] in the order of price_range, by halves
RECURSIVE mask_select(_, _, _, _)
mask_select(prices, pnl, lo, hi) ==
    IF lo > hi THEN <<>>
    ELSE IF lo = hi
    THEN IF isclose_zero(pnl[lo], ATOL * TicksPerUnit * Fine) THEN <<prices[lo]>> ELSE <<>>
    ELSE LET mid == (lo + hi) \div 2
         IN mask_select(prices, pnl, lo, mid) \o mask_select(prices, pnl, mid + 1, hi)

breakevens_of(prices, pnl) == mask_select(prices, pnl, 1, Len(prices))

\* line 216: the first four, rounded to two places
breakevens_shown(be) ==
    [k \in 1..(IF Len(be) < ShownBreakevens THEN Len(be) ELSE ShownBreakevens)
        |-> round2(be[k])]

----------------------------------------------------------------------------
(* Actions of the session *)

Commit(run, i) ==
    \E res \in {run} :
        /\ legs' = res.legs
        /\ err' = res.err
        /\ shown' = res.shown
        /\ clear_btn' = res.clear_btn
        /\ visited' = res.visited
        /\ widgets' = res.widgets
        /\ page' = res.page
        /\ removed' = i

Run(ls, chg) == Script(ls, chg, widgets, page, spot_price, keeps)

\* the widget f of leg i was called by the last run, so it is on the page
\* and the user can act on it
Rendered(i, f) == \E id \in page : id[1] = i /\ id[2] = f

\* the arguments it was called with
Args(i, f) == (CHOOSE id \in page : id[1] = i /\ id[2] = f)[3]

\* a slider called with min_value, max_value, value, step offers the values
\* lo, lo + step, ... up to hi, its bounds widened to include value
Slider(v, min_value, max_value, value, step) ==
    LET lo0 == minimum(min_value, max_value)
        hi0 == maximum(lo0, max_value)
        lo == minimum(value, lo0)
        hi == maximum(value, hi0)
    IN v >= lo /\ v <= hi /\ (v - lo) % step = 0

\* values the sliders of lines 134-159 offer.  Amounts are in ticks; the
\* bounds of strike and premium are halves of the spot price, so these two
\* are compared in half ticks.  arg holds the arguments of the call.
StrikeSlider(v, arg) ==
    Slider(2 * v, maximum(0, arg[1]), 3 * arg[1], 2 * arg[2], 2 * TicksPerUnit)
PremiumSlider(v, arg) ==
    Slider(2 * v, 0, arg[1], 2 * arg[2], 2)
LotSlider(v, arg) ==
    Slider(v, LotMin, LotMax, arg[1], 1)

\* "Add to Strategy" pressed with the sidebar inputs at one of the given
\* settings <<instrument, position, strike, premium, lot>> (the strike and
\* premium of a Future setting are not read)
AddLeg(Forms, max) ==
    /\ Len(legs) < max
    /\ \E f \in Forms :
         Commit(Run(Append(legs, NewLeg(f[1], f[2], f[3], f[4], f[5])), NoChange), 0)
    /\ UNCHANGED <<spot_price, keeps, q, r>>

\* the user moves one widget of one leg from the value it shows to another
EditLeg(I, Q, S, P, L) ==
    /\ \E i \in 1..Len(legs) :
         \/ \E v \in I \ {legs[i].Instrument} :
              /\ Rendered(i, "inst")
              /\ Commit(Run(legs, Change(i, "inst", v)), 0)
         \/ \E v \in Q \ {legs[i].Position} :
              /\ Rendered(i, "pos")
              /\ Commit(Run(legs, Change(i, "pos", v)), 0)
         \/ \E v \in {x \in S : Some(x) # legs[i].Strike} :
              /\ Rendered(i, "strike")
              /\ StrikeSlider(v, Args(i, "strike"))
              /\ Commit(Run(legs, Change(i, "strike", v)), 0)
         \/ \E v \in {x \in P : Some(x) # legs[i].Premium} :
              /\ Rendered(i, "prem")
              /\ PremiumSlider(v, Args(i, "prem"))
              /\ Commit(Run(legs, Change(i, "prem", v)), 0)
         \/ \E v \in L \ {legs[i].Lot} :
              /\ Rendered(i, "lot")
              /\ LotSlider(v, Args(i, "lot"))
              /\ Commit(Run(legs, Change(i, "lot", v)), 0)
    /\ UNCHANGED <<spot_price, keeps, q, r>>

\* "Remove Leg i" pressed
RemoveLeg ==
    /\ \E i \in 1..Len(legs) :
         /\ Rendered(i, "del")
         /\ Commit(Run(legs, Change(i, "del", 0)), i)
    /\ UNCHANGED <<spot_price, keeps, q, r>>

\* "Clear Strategy" pressed
ClearStrategy ==
    /\ clear_btn
    /\ Commit(Run(legs, Change(0, "clear", 0)), 0)
    /\ UNCHANGED <<spot_price, keeps, q, r>>

\* the spot price input changed
SetSpot(V) ==
    /\ \E s \in V \ {spot_price} :
         /\ spot_price' = s
         /\ Commit(Script(legs, NoChange, widgets, page, s, keeps), 0)
    /\ UNCHANGED <<keeps, q, r>>

\* a sidebar input that no leg reads changed (market, underlying name,
\* expiry date, live price, or an input of the Add Position form): the
\* script runs with no leg widget changed
SidebarChange ==
    /\ Commit(Run(legs, NoChange), 0)
    /\ UNCHANGED <<spot_price, keeps, q, r>>

\* what a Streamlit may do with the widgets a run did not call
Keeps == SUBSET {"raise", "rerun"}

\* input alphabets, amounts in ticks
Forms ==
    { <<Call, Long, 100 * TicksPerUnit, 5 * TicksPerUnit, 1>>,
      <<Future, Long, 0, 0, 0>> }
EditInstruments == {Call, Future}
EditPositions == {Short}
EditStrikes == {100 * TicksPerUnit, 110 * TicksPerUnit}
EditPremiums == {2 * TicksPerUnit}
EditLots == {1}
SpotValues == {DefaultSpot * TicksPerUnit, -DefaultSpot * TicksPerUnit}

CurveForms ==
    { <<Call, Long, 100 * TicksPerUnit, 5 * TicksPerUnit, 1>>,
      <<Call, Short, 110 * TicksPerUnit, 2 * TicksPerUnit, 1>>,
      <<Put, Short, 100 * TicksPerUnit, 5 * TicksPerUnit, 2>>,
      <<Put, Long, 110 * TicksPerUnit, 2 * TicksPerUnit, 1>>,
      <<Future, Long, 0, 0, 1>>,
      <<Future, Short, 0, 0, 2>> }

NoQuery == <<>>

Init ==
    /\ legs = <<>>
    /\ spot_price = DefaultSpot * TicksPerUnit
    /\ err = "none"
    /\ shown = 0
    /\ clear_btn = TRUE
    /\ removed = 0
    /\ visited = 0
    /\ widgets = NoWidgets
    /\ page = {}
    /\ keeps \in Keeps
    /\ q = NoQuery
    /\ r = NoQuery

Next ==
    \/ AddLeg(Forms, MaxLegs)
    \/ EditLeg(EditInstruments, EditPositions, EditStrikes, EditPremiums, EditLots)
    \/ RemoveLeg
    \/ ClearStrategy
    \/ SidebarChange

Spec == Init /\ [][Next]_vars

\* the same script on the inputs of the curve scenarios
NextCurve ==
    \/ AddLeg(CurveForms, MaxCurveLegs)
    \/ RemoveLeg
    \/ ClearStrategy
    \/ SetSpot(SpotValues)

SpecCurve == Init /\ [][NextCurve]_vars

----------------------------------------------------------------------------
(* leg_pnl as a function: an evaluation at one price, as in the P&L table  *)
(* (lines 228-229), of a leg and of the same leg with the other position,  *)
(* and the total of the strategy made of the two (lines 177-180).          *)

Opposite(leg) == [leg EXCEPT !.Position = IF @ = Long THEN Short ELSE Long]

PnlPrices == {80 * TicksPerUnit, 90 * TicksPerUnit, 100 * TicksPerUnit, 110 * TicksPerUnit}
PnlSpots == {100 * TicksPerUnit, 105 * TicksPerUnit}
PnlLegs ==
    { NewLeg(f[1], f[2], f[3], f[4], f[5]) :
        f \in Instruments \X Positions
                \X {100 * TicksPerUnit, 110 * TicksPerUnit}
                \X {2 * TicksPerUnit, 5 * TicksPerUnit} \X {1, 2} }

InitPnl ==
    /\ legs = <<>>
    /\ spot_price \in PnlSpots
    /\ err = "none"
    /\ shown = 0
    /\ clear_btn = TRUE
    /\ removed = 0
    /\ visited = 0
    /\ widgets = NoWidgets
    /\ page = {}
    /\ keeps = {}
    /\ q \in {<<[price |-> p, leg |-> l]>> : p \in PnlPrices, l \in PnlLegs}
    /\ r = NoQuery

EvalLegPnl ==
    /\ r = NoQuery
    /\ r' = <<[pnl |-> leg_pnl(q[1].price, q[1].leg, spot_price),
               opp |-> leg_pnl(q[1].price, Opposite(q[1].leg), spot_price),
               pair |-> total_pnl_of(<<q[1].leg, Opposite(q[1].leg)>>, spot_price,
                                     <<q[1].price * Fine>>)[1]]>>
    /\ UNCHANGED <<legs, spot_price, err, shown, clear_btn, removed, visited, widgets, page,
                   keeps, q>>

SpecPnl == InitPnl /\ [][EvalLegPnl]_vars

----------------------------------------------------------------------------
(* Properties *)

IsOption(leg) == leg.Instrument \in {Call, Put}

\* C1: every Call or Put leg of the strategy has both a strike and a premium
\* present (not None), whatever sequence of add, edit, remove and clear
\* produced it.
C1_OptionLegsHaveStrikeAndPremium ==
    \A i \in 1..Len(legs) :
        IsOption(legs[i]) => legs[i].Strike # None /\ legs[i].Premium # None

\* C2: every leg stored in the strategy has a lot size of at least 1.
C2_LotAtLeastOne ==
    \A i \in 1..Len(legs) : legs[i].Lot >= 1

\* the closed form of the claim: s * lot * raw
Raw(price, leg, spot) ==
    IF leg.Instrument = Call THEN maximum(price - leg.Strike[1], 0) - leg.Premium[1]
    ELSE IF leg.Instrument = Put THEN maximum(leg.Strike[1] - price, 0) - leg.Premium[1]
    ELSE price - spot
Sign(leg) == IF leg.Position = Short THEN -1 ELSE 1

Scenario(inst, pos, strike, premium, lot, price) ==
    /\ q[1].leg = NewLeg(inst, pos, strike * TicksPerUnit, premium * TicksPerUnit, lot)
    /\ q[1].price = price * TicksPerUnit
    /\ spot_price = 100 * TicksPerUnit

\* C3: for every valid leg and every price, leg_pnl(price, leg) is
\* s * lot * raw with raw = max(price - strike, 0) - premium for a Call,
\* max(strike - price, 0) - premium for a Put and price - spot for a Future,
\* s = -1 for Short and +1 for Long; the three scenarios of the spec give
\* the stated values.
C3_LegPnlFormula ==
    r # NoQuery =>
        /\ r[1].pnl = Sign(q[1].leg) * q[1].leg.Lot * Raw(q[1].price, q[1].leg, spot_price)
        /\ Scenario(Call, Long, 100, 5, 1, 90) => r[1].pnl = -5 * TicksPerUnit
        /\ Scenario(Call, Long, 100, 5, 1, 100) => r[1].pnl = -5 * TicksPerUnit
        /\ Scenario(Call, Long, 100, 5, 1, 110) => r[1].pnl = 5 * TicksPerUnit
        /\ Scenario(Put, Short, 100, 5, 1, 100) => r[1].pnl = 5 * TicksPerUnit
        /\ Scenario(Put, Short, 100, 5, 1, 80) => r[1].pnl = -15 * TicksPerUnit
        /\ Scenario(Future, Long, 100, 5, 2, 110) => r[1].pnl = 20 * TicksPerUnit
        /\ Scenario(Future, Long, 100, 5, 2, 90) => r[1].pnl = -20 * TicksPerUnit

\* a short Put evaluated in the money: the sign flip, the intrinsic value and
\* the lot all act
C3_Witness ==
    /\ r # NoQuery
    /\ q[1].leg.Instrument = Put
    /\ q[1].leg.Position = Short
    /\ q[1].leg.Lot = 2
    /\ q[1].price < q[1].leg.Strike[1]
    /\ r[1].pnl < 0

\* C4: two legs that differ only in position have opposite leg_pnl at every
\* price and spot, and the strategy made of exactly the two has total
\* payoff 0.
C4_LongShortCancel ==
    r # NoQuery => r[1].pnl = -r[1].opp /\ r[1].pair = 0

\* a Future away from the spot: both payoffs are non-zero and cancel
C4_Witness ==
    /\ r # NoQuery
    /\ q[1].leg.Instrument = Future
    /\ r[1].pnl > 0
    /\ r[1].opp < 0

\* the sum of leg_pnl over the legs at one price, last leg first
RECURSIVE SumLegPnl(_, _, _, _)
SumLegPnl(ls, n, price, spot) ==
    IF n = 0 THEN 0
    ELSE leg_pnl(price, FineLeg(ls[n]), spot * Fine) + SumLegPnl(ls, n - 1, price, spot)

Reverse(ls) == [i \in 1..Len(ls) |-> ls[Len(ls) + 1 - i]]

\* C5: the total payoff at every sampled price is the sum of leg_pnl over
\* the legs of the strategy at that price, whatever the order of the legs,
\* and the accumulation over no legs is zero at every price.
C5_TotalIsSumOfLegs ==
    err = "none" =>
        LET pr == price_range
            tp == total_pnl_of(legs, spot_price, pr)
        IN /\ \A k \in 1..SAMPLES : tp[k] = SumLegPnl(legs, Len(legs), pr[k], spot_price)
           /\ tp = total_pnl_of(Reverse(legs), spot_price, pr)
           /\ legs = <<>> => \A k \in 1..SAMPLES : tp[k] = 0

\* two different legs whose payoffs differ at the first sample
C5_Witness ==
    /\ PanelShown
    /\ Len(legs) = 2
    /\ legs[1].Instrument = Call
    /\ legs[2].Instrument = Future
    /\ LET pr == price_range
       IN /\ leg_pnl(pr[1], FineLeg(legs[1]), spot_price * Fine) # 0
          /\ leg_pnl(pr[1], FineLeg(legs[2]), spot_price * Fine) # 0
          /\ total_pnl[1] # leg_pnl(pr[1], FineLeg(legs[2]), spot_price * Fine)

\* C6: the sweep has exactly 300 evenly spaced points from spot * 0.5 to
\* spot * 1.5, both included, spaced spot / 299, and the payoff sequence has
\* the same length, entry k being the strategy payoff at price k.
C6_SweepShape ==
    PanelShown =>
        LET pr == price_range
            tp == total_pnl_of(legs, spot_price, pr)
        IN /\ Len(pr) = 300
           /\ 2 * pr[1] = spot_price * Fine
           /\ 2 * pr[300] = 3 * spot_price * Fine
           /\ \A k \in 1..299 : 299 * (pr[k + 1] - pr[k]) = spot_price * Fine
           /\ Len(tp) = Len(pr)
           /\ \A k \in 1..300 : tp[k] = SumLegPnl(legs, Len(legs), pr[k], spot_price)

C6_Witness ==
    /\ PanelShown
    /\ spot_price = DefaultSpot * TicksPerUnit
    /\ Len(legs) = 2
    /\ price_range[300] - price_range[1] = spot_price * Fine

breakevens == breakevens_of(price_range, total_pnl)

IsSorted(a) == \A k \in 1..(Len(a) - 1) : a[k] <= a[k + 1]

\* C7: for every strategy and every spot price the sidebar can hold, the
\* breakeven list is in ascending price order and holds exactly the sampled
\* prices whose total pnl is within 5 of zero.
C7_BreakevensSortedAndExact ==
    PanelShown =>
        LET pr == price_range
            tp == total_pnl_of(legs, spot_price, pr)
            be == breakevens_of(pr, tp)
        IN /\ IsSorted(be)
           /\ {be[k] : k \in 1..Len(be)} =
                {pr[k] : k \in {j \in 1..SAMPLES : Abs(tp[j]) <= ATOL * TicksPerUnit * Fine}}
           /\ Len(be) = Cardinality({j \in 1..SAMPLES : Abs(tp[j]) <= ATOL * TicksPerUnit * Fine})

\* the bull call spread of scenario 4 at spot 100
BullCallSpread ==
    /\ legs = << NewLeg(Call, Long, 100 * TicksPerUnit, 5 * TicksPerUnit, 1),
                 NewLeg(Call, Short, 110 * TicksPerUnit, 2 * TicksPerUnit, 1) >>
    /\ spot_price = 100 * TicksPerUnit
    /\ PanelShown

\* a currency amount in fine units
Cur(x) == x * TicksPerUnit * Fine

\* maximum 7 at every sample >= 110 and minimum -3 at every sample <= 100,
\* and nowhere else
SpreadExtremes(pr, tp) ==
    /\ max_profit_of(tp) = 700
    /\ max_loss_of(tp) = -300
    /\ \A k \in 1..SAMPLES :
         /\ tp[k] = Cur(7) <=> pr[k] >= Cur(110)
         /\ tp[k] = Cur(-3) <=> pr[k] <= Cur(100)

\* C8 as stated: maximum profit 7 at every sampled price >= 110, maximum
\* loss -3 at every sampled price <= 100, and one breakeven, near 103.
C8_OneBreakeven ==
    BullCallSpread =>
        LET pr == price_range
            tp == total_pnl_of(legs, spot_price, pr)
            be == breakevens_of(pr, tp)
        IN /\ SpreadExtremes(pr, tp)
           /\ Len(be) = 1
           /\ Abs(be[1] - Cur(103)) <= Cur(ATOL)

\* C8 amended: maximum profit 7 at every sampled price >= 110, maximum loss
\* -3 at every sampled price <= 100, and the breakeven list holds every
\* sampled price <= 108 (174 samples, from 50 up to about 107.86; the
\* samples nearest 103 are among them); the first four, as displayed, are
\* 50.0, 50.33, 50.67, 51.0.
C8_BreakevenBand ==
    BullCallSpread =>
        LET pr == price_range
            tp == total_pnl_of(legs, spot_price, pr)
            be == breakevens_of(pr, tp)
        IN /\ SpreadExtremes(pr, tp)
           /\ Len(be) = 174
           /\ \A k \in 1..174 : be[k] = pr[k]
           /\ pr[174] <= Cur(108) /\ pr[175] > Cur(108)
           /\ \E k \in 1..174 : Abs(be[k] - Cur(103)) * 5 <= Cur(1)
           /\ breakevens_shown(be) = <<5000, 5033, 5067, 5100>>

C8_Witness == BullCallSpread /\ Len(breakevens) > 1

\* C9: pressing Remove on leg i removes exactly that leg: one leg fewer, the
\* legs before it keep index and contents, the legs after it move down by
\* one unchanged, and the loop of that run visits no leg after it.
C9_RemoveExactlyThatLeg ==
    [][removed' # 0 =>
         /\ Len(legs') = Len(legs) - 1
         /\ \A j \in 1..(removed' - 1) : legs'[j] = legs[j]
         /\ \A j \in removed'..Len(legs') : legs'[j] = legs[j + 1]
         /\ visited' = removed']_vars

\* C10: every run gets as far as the Clear Strategy button, so the strategy
\* can always be cleared in the next run.
C10_ClearAlwaysReachable == clear_btn

====
